---- MODULE Spec2Model ----
(***************************************************************************)
(* MonteCarloMultiGPU (SYCL migration): the host program that partitions a *)
(* portfolio of options over the devices, drives every device either from  *)
(* one host thread per device (solverThread) or from one host thread for   *)
(* all devices (multiSolver), compares the results with the Black-Scholes  *)
(* prices and exits with the pass/fail status.                             *)
(*                                                                         *)
(* Prices are exact integers in units of 1e-6 (one "micro"); the           *)
(* floating-point rounding of the C++ code is not modelled.                *)
(***************************************************************************)
EXTENDS Integers, Naturals, Sequences, FiniteSets, TLC

\* ------------------------------------------------------------ bounds
\* largest number of devices of a modelled host, GPUs and others together
MaxDevices == 2
\* largest compute-unit count of a modelled GPU
MaxCUs == 4
\* the default option count of main (8 * 1024 in the code), scaled down
DefaultOptions == 2
\* plan builder on drawn inputs: largest device count and portfolio size
MaxDev == 4
MaxOpt == 17
\* comparison on drawn inputs: largest portfolio size
MaxCompared == 3
\* grid sizes on drawn hosts: the default option count of main, scaled down
\* to a value above the grid ceiling of a GPU of two compute units
GridOptions == 128

\* ------------------------------------------------------------ constants
PATH_N == 262144
SmallGpuCores == 32
GridPerCore == 40
\* one unit of price is 1e-6, so the threshold 1e-6 of the comparison is 1
Eps == 1
\* -1.0f, the value every result entry is initialised to
Unset == -1000000

\* ------------------------------------------------------------ strings
\* a C string is a sequence of characters; NULL is a separate value
NULL == [isNull |-> TRUE, chars |-> <<>>]
Str(s) == [isNull |-> FALSE, chars |-> s]

tolower(c) ==
    CASE c = "T" -> "t" [] c = "H" -> "h" [] c = "R" -> "r" [] c = "E" -> "e"
      [] c = "A" -> "a" [] c = "D" -> "d" [] c = "S" -> "s" [] c = "O" -> "o"
      [] c = "N" -> "n" [] c = "G" -> "g" [] c = "W" -> "w" [] c = "K" -> "k"
      [] c = "M" -> "m"
      [] OTHER -> c

\* strcasecmp(a, b) == 0
strcasecmpEq(a, b) ==
    /\ Len(a) = Len(b)
    /\ \A k \in 1..Len(a) : tolower(a[k]) = tolower(b[k])

ThreadedLit == <<"t", "h", "r", "e", "a", "d", "e", "d">>
StrongLit == <<"s", "t", "r", "o", "n", "g">>

MethodArgs ==
    { NULL,
      Str(<<"T", "h", "r", "e", "a", "d", "e", "d">>),
      Str(<<"s", "t", "r", "e", "a", "m", "e", "d">>) }
ScalingArgs ==
    { NULL, Str(<<"S", "T", "R", "O", "N", "G">>) }

\* ------------------------------------------------------------ state
VARIABLES
    argQatest,      \* --qatest given
    argHelp,        \* -h or --help given
    argMethod,      \* value of --method, or NULL
    argScaling,     \* value of --scaling, or NULL
    gpuCUs,         \* max_compute_units of every GPU-type device, in list order
    nOther,         \* number of devices that are not GPUs
    mc,             \* the Monte Carlo kernel: option kind -> result
    pc,             \* position of main
    use_threads, bqatest, strongScaling,
    GPU_N, OPT_N,
    hTimer,         \* timer i -> [running, starts, stops]
    optionData,     \* option i -> kind of its market parameters
    callValueGPU,   \* option i -> [Expected, Confidence]
    optionSolver,   \* plan i -> [device, optionCount, base, pathN, gridSize]
    i, gpuBase,
    tpc,            \* position of the host thread of plan i
    streams,        \* queue of plan i in the running pass
    events,         \* barrier events recorded by multiSolver
    resident,       \* plan i holds device-resident buffers
    hlog,           \* pass -> plan -> host calls made on the plan's queue
    writes,         \* option i -> the <<pass, plan>> of every device write
    readBy,         \* the passes whose comparison loop has read the results
    afterThreaded,  \* callValueGPU as the threaded comparison found it
    sumDelta, sumRef, sumReserve,
    status          \* "running", "exit0", "exit1", or the process was ended:
                    \* "uncaught" by an exception no one catches, "fault"
                    \* by undefined behaviour

vars ==
    << argQatest, argHelp, argMethod, argScaling, gpuCUs, nOther, mc,
       pc, use_threads, bqatest, strongScaling, GPU_N, OPT_N, hTimer,
       optionData, callValueGPU, optionSolver, i, gpuBase, tpc, streams,
       events, resident, hlog, writes, readBy, afterThreaded,
       sumDelta, sumRef, sumReserve, status >>

inputVars ==
    << argQatest, argHelp, argMethod, argScaling, gpuCUs, nOther, mc >>
flagVars == << use_threads, bqatest, strongScaling >>
execVars == << tpc, streams, events, resident, hlog, writes >>
sumVars == << sumDelta, sumRef, sumReserve >>

Plans == 0..(GPU_N - 1)
Options == 0..(OPT_N - 1)
Passes == {"threaded", "streamed"}

\* ------------------------------------------------------------ option data
\* randFloat after srand(123) yields one fixed portfolio; an option is
\* abstracted to the kind of its parameters, which alternates
Kinds == {"A", "B"}
KindOf(n) == IF n % 2 = 0 THEN "A" ELSE "B"

\* BlackScholesCall: the closed-form price of an option (4.0 and 6.0)
BlackScholesCall(kind) == IF kind = "A" THEN 4000000 ELSE 6000000

Value(e, c) == [Expected |-> e, Confidence |-> c]
SentinelValue == Value(Unset, Unset)

\* Results a kernel can report for an option of the given kind: the exact
\* price, one within 1e-6, and errors of 2e-6 and 4e-6 with confidence 2e-6
\* or 6e-6.
KernelResults(kind) ==
    { Value(BlackScholesCall(kind), 500000),
      Value(BlackScholesCall(kind) + 1, 5),
      Value(BlackScholesCall(kind) + 2, 2),
      Value(BlackScholesCall(kind) + 2, 6),
      Value(BlackScholesCall(kind) - 4, 2) }

\* the kernels of the full runs: a few deterministic tables kind -> result
KernelTables ==
    { [k \in Kinds |-> Value(BlackScholesCall(k), 500000)],
      [k \in Kinds |-> Value(BlackScholesCall(k) + 2, 6)],
      [k \in Kinds |-> Value(BlackScholesCall(k) + 2, 2)],
      [k \in Kinds |-> IF k = "A" THEN Value(BlackScholesCall(k) + 2, 6)
                                  ELSE Value(BlackScholesCall(k) - 4, 2)] }

\* ------------------------------------------------------------ rationals
Abs(x) == IF x < 0 THEN -x ELSE x

RECURSIVE Gcd(_, _)
Gcd(a, b) == IF b = 0 THEN a ELSE Gcd(b, a % b)

\* a double as a rational num/den with den > 0, in lowest terms; den = 0 is
\* NaN (num = 0) or an infinity (num = 1, -1)
Rat(n, d) ==
    IF d = 0 THEN [num |-> IF n > 0 THEN 1 ELSE IF n < 0 THEN -1 ELSE 0, den |-> 0]
    ELSE LET g == Gcd(Abs(n), Abs(d))
             s == IF d < 0 THEN -1 ELSE 1
         IN  [num |-> s * (n \div g), den |-> s * (d \div g)]
Zero == Rat(0, 1)
RatAdd(a, b) ==
    IF a.den = 0 \/ b.den = 0 THEN Rat(0, 0)
    ELSE Rat(a.num * b.den + b.num * a.den, a.den * b.den)
\* a / n for an integer n >= 0; x / 0 is NaN or an infinity
RatDivInt(a, n) ==
    IF a.den = 0 THEN a
    ELSE IF n = 0 THEN Rat(a.num, 0)
    ELSE Rat(a.num, a.den * n)
\* a > 1.0: false for NaN, true for +infinity
RatGtOne(a) == (a.den > 0 /\ a.num > a.den) \/ (a.den = 0 /\ a.num > 0)

\* ------------------------------------------------------------ devices
\* sycl::queue(gpu_selector{}) throws when the host has no GPU
NoGpu == Len(gpuCUs) = 0
\* max_compute_units of the device a gpu_selector queue runs on, which is
\* the same device at every call: the first GPU
SelectedCUs == gpuCUs[1]

\* the loop of adjustProblemSize after k of its n iterations
RECURSIVE ProblemSizeLoop(_, _, _)
ProblemSizeLoop(k, n, nOptions) ==
    IF k >= n THEN nOptions
    ELSE LET cudaCores == SelectedCUs
         IN  ProblemSizeLoop(k + 1, n,
                 IF cudaCores <= SmallGpuCores
                 THEN (IF nOptions < cudaCores \div 2 THEN nOptions
                                                     ELSE cudaCores \div 2)
                 ELSE nOptions)

adjustProblemSize(gpuN, default_nOptions) ==
    ProblemSizeLoop(0, gpuN, default_nOptions)

adjustGridSize(GPUIndex, defaultGridSize) ==
    LET maxGridSize == SelectedCUs * GridPerCore
    IN  IF defaultGridSize > maxGridSize THEN maxGridSize ELSE defaultGridSize

\* ------------------------------------------------------------ timers
NewTimer == [running |-> FALSE, starts |-> 0, stops |-> 0]
sdkStartTimer(t) == [t EXCEPT !.running = TRUE, !.starts = @ + 1]
sdkStopTimer(t) == [t EXCEPT !.running = FALSE, !.stops = @ + 1]

\* ------------------------------------------------------------ main: set-up
NoPlan == [device |-> 0, optionCount |-> 0, base |-> 0, pathN |-> 0, gridSize |-> 0]
NoQueue ==
    [open |-> FALSE, dev |-> "none", pass |-> "none", pending |-> <<>>, err |-> FALSE]

\* --qatest not looked at
FirstPass_ThreadsOnly(threads, qa) == IF threads THEN "spawn" ELSE "ms_open"
\* the pass main runs first, and the one it runs after the threaded pass
FirstPass(threads, qa) == IF threads \/ qa THEN "spawn" ELSE "ms_open"
SecondPass(threads, qa) == IF ~threads \/ qa THEN "ms_open" ELSE "shutdown"

Running == status = "running"

\* lines 205-242: the command line
ParseArgs ==
    /\ Running /\ pc = "parse"
    /\ IF argHelp
       THEN /\ status' = "exit0"
            /\ pc' = "exited"
            /\ bqatest' = argQatest
            /\ UNCHANGED << use_threads, strongScaling >>
       ELSE /\ bqatest' = argQatest
            /\ use_threads' = IF argMethod.isNull THEN FALSE
                              ELSE strcasecmpEq(argMethod.chars, ThreadedLit)
            /\ strongScaling' = IF argScaling.isNull THEN FALSE
                                ELSE strcasecmpEq(argScaling.chars, StrongLit)
            /\ pc' = "probe"
            /\ UNCHANGED status
    /\ UNCHANGED << inputVars, GPU_N, OPT_N, hTimer, optionData, callValueGPU,
                    optionSolver, i, gpuBase, execVars, readBy, afterThreaded,
                    sumVars >>

\* lines 244-274: device count, problem size, timers, arrays.  adjustProblemSize opens
\* a gpu_selector queue per counted device: without a GPU that throws, and
\* nothing catches it.
ProbeDevices ==
    /\ Running /\ pc = "probe"
    /\ LET n == Len(gpuCUs) + nOther
       IN  IF n > 0 /\ NoGpu
           THEN /\ status' = "uncaught"
                /\ UNCHANGED << pc, GPU_N, OPT_N, hTimer, optionSolver, tpc,
                                streams, events, resident, hlog >>
           ELSE LET nOptions == adjustProblemSize(n, DefaultOptions)
                    scale == IF strongScaling THEN 1 ELSE n
                IN  /\ GPU_N' = n
                    /\ OPT_N' = nOptions * scale
                    /\ hTimer' = [t \in 0..(n - 1) |-> NewTimer]
                    /\ optionSolver' = [p \in 0..(n - 1) |-> NoPlan]
                    /\ tpc' = [p \in 0..(n - 1) |-> "none"]
                    /\ streams' = [p \in 0..(n - 1) |-> NoQueue]
                    /\ events' = [p \in 0..(n - 1) |-> "none"]
                    /\ resident' = [p \in 0..(n - 1) |-> FALSE]
                    /\ hlog' = [ps \in Passes |-> [p \in 0..(n - 1) |-> <<>>]]
                    /\ pc' = "gen"
                    /\ UNCHANGED status
    /\ UNCHANGED << inputVars, flagVars, optionData, callValueGPU, i, gpuBase,
                    writes, readBy, afterThreaded, sumVars >>

\* lines 292-303: the input data, and every result set to (-1, -1)
GenerateInput ==
    /\ Running /\ pc = "gen"
    /\ optionData' = [n \in Options |-> KindOf(n)]
    /\ callValueGPU' = [n \in Options |-> SentinelValue]
    /\ writes' = [n \in Options |-> <<>>]
    /\ i' = 0
    /\ pc' = "plan_count"
    /\ UNCHANGED << inputVars, flagVars, GPU_N, OPT_N, hTimer, gpuBase,
                    optionSolver, tpc, streams, events, resident, hlog,
                    readBy, afterThreaded, sumVars, status >>

\* ------------------------------------------------------------ main: plans
\* line 309
BaseCount(optN, gpuN) == optN \div gpuN
\* the remainder loop left out
OddCount_None(optN, gpuN) == 0
\* line 313: the number of plans that take one more option
OddCount(optN, gpuN) == optN % gpuN
\* the running base left where it is
NextBase_Stuck(base, count) == base
\* line 327
NextBase(base, count) == base + count

planFrame ==
    << inputVars, flagVars, GPU_N, OPT_N, hTimer, optionData, callValueGPU,
       execVars, readBy, afterThreaded, sumVars >>

\* lines 308-310
PlanCount ==
    /\ Running /\ pc = "plan_count"
    /\ IF i < GPU_N
       THEN /\ optionSolver' =
                  [optionSolver EXCEPT ![i].optionCount = BaseCount(OPT_N, GPU_N)]
            /\ i' = i + 1
            /\ pc' = pc
       ELSE /\ i' = 0
            /\ pc' = "plan_odd"
            /\ UNCHANGED optionSolver
    /\ UNCHANGED << planFrame, gpuBase, status >>

\* lines 313-315 with at least one device
PlanOdd ==
    /\ Running /\ pc = "plan_odd" /\ GPU_N > 0
    /\ IF i < OddCount(OPT_N, GPU_N)
       THEN /\ optionSolver' = [optionSolver EXCEPT ![i].optionCount = @ + 1]
            /\ i' = i + 1
            /\ UNCHANGED << pc, gpuBase >>
       ELSE /\ i' = 0
            /\ gpuBase' = 0
            /\ pc' = "plan_range"
            /\ UNCHANGED optionSolver
    /\ UNCHANGED << planFrame, status >>

\* line 313 without a device: OPT_N % 0 is undefined; the division traps
\* (SIGFPE), or where it does not trap the loop is taken to end at once
PlanOddNoDevice ==
    /\ Running /\ pc = "plan_odd" /\ GPU_N = 0
    /\ \/ /\ status' = "fault"
          /\ UNCHANGED << pc, i, gpuBase >>
       \/ /\ i' = 0
          /\ gpuBase' = 0
          /\ pc' = "plan_range"
          /\ UNCHANGED status
    /\ UNCHANGED << planFrame, optionSolver >>

\* lines 320-328
PlanRange ==
    /\ Running /\ pc = "plan_range"
    /\ IF i < GPU_N
       THEN /\ optionSolver' =
                  [optionSolver EXCEPT
                      ![i].device = i,
                      ![i].base = gpuBase,
                      ![i].pathN = PATH_N,
                      ![i].gridSize = adjustGridSize(i, optionSolver[i].optionCount)]
            /\ gpuBase' = NextBase(gpuBase, optionSolver[i].optionCount)
            /\ i' = i + 1
            /\ pc' = pc
       ELSE /\ i' = 0
            /\ pc' = FirstPass(use_threads, bqatest)
            /\ UNCHANGED << optionSolver, gpuBase >>
    /\ UNCHANGED << planFrame, status >>

\* the options of plan p: callValue[0 .. optionCount - 1]
Range(p) == { optionSolver[p].base + k : k \in 0..(optionSolver[p].optionCount - 1) }

\* ------------------------------------------------------------ queues
\* get_devices(gpu)[device] of the GPU-only list: the queue's device, or,
\* read past the end of the list (undefined), whatever object lies there
DeviceAt(device) == IF device < Len(gpuCUs) THEN device ELSE "stale"
OutOfList(device) == device >= Len(gpuCUs)

OpenQueue(device, pass) ==
    [open |-> TRUE, dev |-> DeviceAt(device), pass |-> pass,
     pending |-> <<>>, err |-> FALSE]
\* a command of plan p submitted to queue q
Submit(q, cmd, p) == [q EXCEPT !.pending = Append(@, <<cmd, p>>)]
\* every command submitted to the queue has completed
Drained(q) == q.pending = <<>>
Call(log, op, q) == Append(log, <<op, q>>)

\* initMonteCarloGPU(plan, stream): allocates the plan's device buffers and
\* submits their set-up
InitIssue(p, q, pass) ==
    /\ streams' = [streams EXCEPT ![q] = Submit(@, "init", p)]
    /\ resident' = [resident EXCEPT ![p] = TRUE]
    /\ hlog' = [hlog EXCEPT ![pass][p] = Call(@, "init", q)]

\* MonteCarloGPU(plan, stream): submits the simulation of the plan's options
SimulateIssue(p, q, pass) ==
    /\ streams' = [streams EXCEPT ![q] = Submit(@, "sim", p)]
    /\ hlog' = [hlog EXCEPT ![pass][p] = Call(@, "sim", q)]
    /\ UNCHANGED resident

\* closeMonteCarloGPU(plan, stream): releases the plan's device buffers
CloseIssue(p, q, pass) ==
    /\ streams' = [streams EXCEPT ![q] = Submit(@, "close", p)]
    /\ resident' = [resident EXCEPT ![p] = FALSE]
    /\ hlog' = [hlog EXCEPT ![pass][p] = Call(@, "close", q)]

\* the simulation of plan p is submitted to some queue and not complete
Simulating(p) ==
    \E q \in Plans : \E k \in 1..Len(streams[q].pending) :
        streams[q].pending[k] = <<"sim", p>>

\* the device of queue q completes the queue's oldest command; a simulation
\* writes the result of every option of its plan, or fails and leaves an
\* asynchronous error on the queue
DeviceStep(q) ==
    /\ Running
    /\ streams[q].open /\ ~Drained(streams[q])
    /\ LET cmd == Head(streams[q].pending)[1]
           p == Head(streams[q].pending)[2]
           rest == Tail(streams[q].pending)
       IN  IF cmd = "sim"
           THEN \/ /\ callValueGPU' =
                         [n \in Options |->
                             IF n \in Range(p) THEN mc[optionData[n]]
                                               ELSE callValueGPU[n]]
                   /\ writes' =
                         [n \in Options |->
                             IF n \in Range(p)
                             THEN Append(writes[n], <<streams[q].pass, p>>)
                             ELSE writes[n]]
                   /\ streams' = [streams EXCEPT ![q].pending = rest]
                \/ /\ streams' = [streams EXCEPT ![q].pending = rest,
                                                 ![q].err = TRUE]
                   /\ UNCHANGED << callValueGPU, writes >>
           ELSE /\ streams' = [streams EXCEPT ![q].pending = rest]
                /\ UNCHANGED << callValueGPU, writes >>
    /\ UNCHANGED << inputVars, flagVars, pc, GPU_N, OPT_N, hTimer, optionData,
                    optionSolver, i, gpuBase, tpc, events, resident, hlog,
                    readBy, afterThreaded, sumVars, status >>

\* ------------------------------------------------------------ solverThread
threadFrame ==
    << inputVars, flagVars, pc, GPU_N, OPT_N, optionData, callValueGPU,
       optionSolver, i, gpuBase, events, writes, readBy, afterThreaded, sumVars >>

\* lines 332-335: cutStartThread for every plan
SpawnThreads ==
    /\ Running /\ pc = "spawn"
    /\ IF i < GPU_N
       THEN /\ tpc' = [tpc EXCEPT ![i] = "start"]
            /\ i' = i + 1
            /\ pc' = pc
       ELSE /\ i' = 0
            /\ pc' = "join"
            /\ UNCHANGED tpc
    /\ UNCHANGED << inputVars, flagVars, GPU_N, OPT_N, hTimer, optionData,
                    callValueGPU, optionSolver, gpuBase, streams, events,
                    resident, hlog, writes, readBy, afterThreaded, sumVars,
                    status >>

\* a wait that returns at once
SyncReturns_AtOnce(q) == TRUE
\* the queue is drained, which is what wait and wait_and_throw return on
SyncReturns(q) == Drained(q)

\* the simulation submitted before the set-up
ThreadRun_SimFirst(p) ==
    /\ Running /\ tpc[p] = "start"
    /\ hTimer' = [hTimer EXCEPT ![optionSolver[p].device] = sdkStartTimer(@)]
    /\ streams' =
          [streams EXCEPT
              ![p] = Submit(Submit(OpenQueue(optionSolver[p].device, "threaded"),
                                   "sim", p), "init", p)]
    /\ resident' = [resident EXCEPT ![p] = TRUE]
    /\ hlog' = [hlog EXCEPT !["threaded"][p] = Call(Call(@, "sim", p), "init", p)]
    /\ tpc' = [tpc EXCEPT ![p] = "sync"]
    /\ UNCHANGED << threadFrame, status >>

\* lines 108-116: the thread starts its timer, opens its queue and submits
\* the set-up and the simulation
ThreadRun(p) ==
    /\ Running /\ tpc[p] = "start"
    /\ hTimer' = [hTimer EXCEPT ![optionSolver[p].device] = sdkStartTimer(@)]
    /\ streams' =
          [streams EXCEPT
              ![p] = Submit(Submit(OpenQueue(optionSolver[p].device, "threaded"),
                                   "init", p), "sim", p)]
    /\ resident' = [resident EXCEPT ![p] = TRUE]
    /\ hlog' = [hlog EXCEPT !["threaded"][p] = Call(Call(@, "init", p), "sim", p)]
    /\ tpc' = [tpc EXCEPT ![p] = "sync"]
    /\ UNCHANGED << threadFrame, status >>

\* line 111 with plan->device past the end of the GPU list: the read is
\* undefined, and may as well end the process
ThreadRunFault(p) ==
    /\ Running /\ tpc[p] = "start"
    /\ OutOfList(optionSolver[p].device)
    /\ status' = "fault"
    /\ UNCHANGED << threadFrame, hTimer, tpc, streams, resident, hlog >>

\* lines 118-123: wait_and_throw returns once the queue is drained; an
\* asynchronous error ends the process, otherwise the timer is stopped and
\* the teardown submitted
ThreadSync(p) ==
    /\ Running /\ tpc[p] = "sync"
    /\ SyncReturns(streams[p])
    /\ IF streams[p].err
       THEN /\ status' = "uncaught"
            /\ UNCHANGED << hTimer, tpc, hlog, streams, resident >>
       ELSE /\ hTimer' = [hTimer EXCEPT ![optionSolver[p].device] = sdkStopTimer(@)]
            /\ hlog' = [hlog EXCEPT !["threaded"][p] =
                                        Call(Call(@, "wait", p), "close", p)]
            /\ streams' = [streams EXCEPT ![p] = Submit(@, "close", p)]
            /\ resident' = [resident EXCEPT ![p] = FALSE]
            /\ tpc' = [tpc EXCEPT ![p] = "drain"]
            /\ UNCHANGED status
    /\ UNCHANGED threadFrame

\* lines 125-127: stream.wait(), then the thread ends
ThreadEnd(p) ==
    /\ Running /\ tpc[p] = "drain"
    /\ SyncReturns(streams[p])
    /\ tpc' = [tpc EXCEPT ![p] = "done"]
    /\ UNCHANGED << threadFrame, hTimer, streams, resident, hlog, status >>

\* only the first thread is waited for
AllJoined_First == \A p \in Plans : p = 0 => tpc[p] = "done"
\* every thread main started has ended
AllJoined == \A p \in Plans : tpc[p] = "done"

\* line 338: cutWaitForThreads
JoinThreads ==
    /\ Running /\ pc = "join"
    /\ AllJoined
    /\ pc' = "cmp_t"
    /\ UNCHANGED << inputVars, flagVars, GPU_N, OPT_N, hTimer, optionData,
                    callValueGPU, optionSolver, i, gpuBase, execVars, readBy,
                    afterThreaded, sumVars, status >>

\* ------------------------------------------------------------ comparison
\* lines 360-374 and 403-417: the comparison loop from option k on; the
\* sums of an iteration are values (a is bound to them) before the next
\* iteration starts
RECURSIVE CompareLoop(_, _, _, _, _)
CompareLoop(k, n, data, vals, acc) ==
    IF k >= n THEN acc
    ELSE LET callValueBS == BlackScholesCall(data[k])
             delta == Abs(callValueBS - vals[k].Expected)
             ref == callValueBS
         IN  CHOOSE sums \in
                 { CompareLoop(k + 1, n, data, vals, a) :
                     a \in { [sumDelta |-> acc.sumDelta + delta,
                              sumRef |-> acc.sumRef + Abs(ref),
                              sumReserve |->
                                  IF delta > Eps
                                  THEN RatAdd(acc.sumReserve,
                                              Rat(vals[k].Confidence, delta))
                                  ELSE acc.sumReserve] } } : TRUE

\* the reserve divided by the number of options that contributed to it
Compare_PerContributor(n, data, vals) ==
    LET sums == CompareLoop(0, n, data, vals,
                    [sumDelta |-> 0, sumRef |-> 0, sumReserve |-> Zero])
        used == { k \in 0..(n - 1) :
                    Abs(BlackScholesCall(data[k]) - vals[k].Expected) > Eps }
    IN  [sums EXCEPT !.sumReserve = RatDivInt(@, Cardinality(used))]

\* the sums not set to 0 before the loop
Compare_NoReset(n, data, vals) ==
    LET sums == CompareLoop(0, n, data, vals,
                    [sumDelta |-> sumDelta, sumRef |-> sumRef,
                     sumReserve |-> sumReserve])
    IN  [sums EXCEPT !.sumReserve = RatDivInt(@, n)]

\* lines 356-376 and 399-419: the sums, and sumReserve /= OPT_N
Compare(n, data, vals) ==
    LET sums == CompareLoop(0, n, data, vals,
                    [sumDelta |-> 0, sumRef |-> 0, sumReserve |-> Zero])
    IN  [sums EXCEPT !.sumReserve = RatDivInt(@, n)]

compareFrame ==
    << inputVars, flagVars, GPU_N, OPT_N, hTimer, optionData, callValueGPU,
       optionSolver, i, gpuBase, execVars, status >>

\* lines 340-377: statistics and comparison of the threaded pass
CompareThreaded ==
    /\ Running /\ pc = "cmp_t"
    /\ LET sums == Compare(OPT_N, optionData, callValueGPU)
       IN  /\ sumDelta' = sums.sumDelta
           /\ sumRef' = sums.sumRef
           /\ sumReserve' = sums.sumReserve
    /\ readBy' = readBy \cup {"threaded"}
    /\ afterThreaded' = callValueGPU
    /\ pc' = SecondPass(use_threads, bqatest)
    /\ UNCHANGED compareFrame

\* lines 382-420: statistics and comparison of the streamed pass
CompareStreamed ==
    /\ Running /\ pc = "cmp_s" /\ GPU_N > 0
    /\ LET sums == Compare(OPT_N, optionData, callValueGPU)
       IN  /\ sumDelta' = sums.sumDelta
           /\ sumRef' = sums.sumRef
           /\ sumReserve' = sums.sumReserve
    /\ readBy' = readBy \cup {"streamed"}
    /\ pc' = "shutdown"
    /\ UNCHANGED << compareFrame, afterThreaded >>

\* line 393 without a device: hTimer[0] is read past the end of an empty
\* array; the process ends there or the read goes unnoticed
CompareStreamedNoDevice ==
    /\ Running /\ pc = "cmp_s" /\ GPU_N = 0
    /\ \/ /\ status' = "fault"
          /\ UNCHANGED << pc, readBy, sumVars >>
       \/ /\ LET sums == Compare(OPT_N, optionData, callValueGPU)
             IN  /\ sumDelta' = sums.sumDelta
                 /\ sumRef' = sums.sumRef
                 /\ sumReserve' = sums.sumReserve
          /\ readBy' = readBy \cup {"streamed"}
          /\ pc' = "shutdown"
          /\ UNCHANGED status
    /\ UNCHANGED << inputVars, flagVars, GPU_N, OPT_N, hTimer, optionData,
                    callValueGPU, optionSolver, i, gpuBase, execVars,
                    afterThreaded >>

\* lines 442-453: every timer is started once more, the arrays are deleted
Shutdown ==
    /\ Running /\ pc = "shutdown"
    /\ hTimer' = [t \in DOMAIN hTimer |-> sdkStartTimer(hTimer[t])]
    /\ pc' = "judge"
    /\ UNCHANGED << inputVars, flagVars, GPU_N, OPT_N, optionData, callValueGPU,
                    optionSolver, i, gpuBase, execVars, readBy, afterThreaded,
                    sumVars, status >>

\* passes at 1.0 as well
Passed_AtOne(averageReserve) ==
    RatGtOne(averageReserve) \/
        (averageReserve.den > 0 /\ averageReserve.num = averageReserve.den)
\* line 459: sumReserve > 1.0f
Passed(averageReserve) == RatGtOne(averageReserve)

\* lines 455-459: the summary and the exit status
Judge ==
    /\ Running /\ pc = "judge"
    /\ status' = IF Passed(sumReserve) THEN "exit0" ELSE "exit1"
    /\ pc' = "exited"
    /\ UNCHANGED << inputVars, flagVars, GPU_N, OPT_N, hTimer, optionData,
                    callValueGPU, optionSolver, i, gpuBase, execVars, readBy,
                    afterThreaded, sumVars >>

\* ------------------------------------------------------------ multiSolver
msFrame ==
    << inputVars, flagVars, GPU_N, OPT_N, optionData, callValueGPU,
       optionSolver, gpuBase, tpc, writes, readBy, afterThreaded, sumVars >>

\* lines 139-142: one in-order queue per plan
MsOpen ==
    /\ Running /\ pc = "ms_open"
    /\ IF i < GPU_N
       THEN /\ streams' = [streams EXCEPT ![i] = OpenQueue(optionSolver[i].device, "streamed")]
            /\ i' = i + 1
            /\ pc' = pc
       ELSE /\ i' = 0
            /\ pc' = "ms_init"
            /\ UNCHANGED streams
    /\ UNCHANGED << msFrame, hTimer, events, resident, hlog, status >>

\* lines 132 and 140-141: the queue is assigned into storage that malloc
\* returned and no constructor ran on, and the device may lie past the end of
\* the GPU list; both are undefined and may end the process
MsOpenFault ==
    /\ Running /\ pc = "ms_open" /\ i < GPU_N
    /\ status' = "fault"
    /\ UNCHANGED << msFrame, hTimer, pc, i, streams, events, resident, hlog >>

\* lines 144-146
MsInit ==
    /\ Running /\ pc = "ms_init"
    /\ IF i < GPU_N
       THEN /\ InitIssue(i, i, "streamed")
            /\ i' = i + 1
            /\ pc' = pc
       ELSE /\ i' = 0
            /\ pc' = "ms_initwait"
            /\ UNCHANGED << streams, resident, hlog >>
    /\ UNCHANGED << msFrame, hTimer, events, status >>

\* the loop over the queues left out
MsInitWait_None ==
    /\ Running /\ pc = "ms_initwait"
    /\ i' = 0
    /\ pc' = "ms_sim"
    /\ UNCHANGED << msFrame, hTimer, streams, events, resident, hlog, status >>

\* lines 148-150: wait_and_throw on every queue in turn
MsInitWait ==
    /\ Running /\ pc = "ms_initwait"
    /\ IF i < GPU_N
       THEN /\ SyncReturns(streams[i])
            /\ hlog' = [hlog EXCEPT !["streamed"][i] = Call(@, "wait", i)]
            /\ i' = i + 1
            /\ pc' = pc
       ELSE /\ i' = 0
            /\ pc' = "ms_sim"
            /\ UNCHANGED hlog
    /\ UNCHANGED << msFrame, hTimer, streams, events, resident, status >>

\* lines 152-159: the simulation and its barrier event, plan by plan
MsSimulate ==
    /\ Running /\ pc = "ms_sim"
    /\ IF i < GPU_N
       THEN /\ SimulateIssue(i, i, "streamed")
            /\ events' = [events EXCEPT ![i] = "recorded"]
            /\ i' = i + 1
            /\ pc' = pc
       ELSE /\ i' = 0
            /\ pc' = "ms_wait"
            /\ UNCHANGED << streams, resident, hlog, events >>
    /\ UNCHANGED << msFrame, hTimer, status >>

\* the loop over the events left out
MsWait_Skip ==
    /\ Running /\ pc = "ms_wait"
    /\ i' = 0
    /\ pc' = "ms_stop"
    /\ UNCHANGED << msFrame, hTimer, streams, resident, events, hlog, status >>

\* lines 161-163: wait_and_throw on every event in turn; the event of a
\* barrier completes with everything submitted to its queue before it
MsWait ==
    /\ Running /\ pc = "ms_wait"
    /\ IF i < GPU_N
       THEN /\ SyncReturns(streams[i])
            /\ IF streams[i].err
               THEN /\ status' = "uncaught"
                    /\ UNCHANGED << events, hlog, i, pc >>
               ELSE /\ events' = [events EXCEPT ![i] = "waited"]
                    /\ hlog' = [hlog EXCEPT !["streamed"][i] = Call(@, "evwait", i)]
                    /\ i' = i + 1
                    /\ pc' = pc
                    /\ UNCHANGED status
       ELSE /\ i' = 0
            /\ pc' = "ms_stop"
            /\ UNCHANGED << events, hlog, status >>
    /\ UNCHANGED << msFrame, hTimer, streams, resident >>

\* line 166: the shared timer is stopped
MsStopTimer ==
    /\ Running /\ pc = "ms_stop" /\ GPU_N > 0
    /\ hTimer' = [hTimer EXCEPT ![0] = sdkStopTimer(@)]
    /\ pc' = "ms_close"
    /\ UNCHANGED << msFrame, i, streams, events, resident, hlog, status >>

\* line 166 without a device: hTimer[0] lies past the end of an empty array
MsStopTimerNoDevice ==
    /\ Running /\ pc = "ms_stop" /\ GPU_N = 0
    /\ \/ /\ status' = "fault"
          /\ pc' = pc
       \/ /\ pc' = "ms_close"
          /\ UNCHANGED status
    /\ UNCHANGED << msFrame, hTimer, i, streams, events, resident, hlog >>

\* lines 167-169, and the return to main
MsClose ==
    /\ Running /\ pc = "ms_close"
    /\ IF i < GPU_N
       THEN /\ CloseIssue(i, i, "streamed")
            /\ i' = i + 1
            /\ pc' = pc
       ELSE /\ i' = 0
            /\ pc' = "cmp_s"
            /\ UNCHANGED << streams, resident, hlog >>
    /\ UNCHANGED << msFrame, hTimer, events, status >>

\* the calls each strategy makes on a plan's queue, in order
FullLog(pass, p) ==
    IF pass = "threaded"
    THEN << <<"init", p>>, <<"sim", p>>, <<"wait", p>>, <<"close", p>> >>
    ELSE << <<"init", p>>, <<"wait", p>>, <<"sim", p>>, <<"evwait", p>>,
            <<"close", p>> >>

\* ------------------------------------------------------------ the program
\* a host: its GPUs, all of one model, and the number of its other devices
Hosts ==
    { h \in [cus : { [k \in 1..n |-> c] : n \in 0..MaxDevices, c \in 1..MaxCUs },
             other : 0..MaxDevices] :
        Len(h.cus) + h.other <= MaxDevices }

\* the command lines: every choice of --qatest, --method and --scaling, and
\* one with --help
CommandLines ==
    [qatest : BOOLEAN, help : {FALSE}, method : MethodArgs, scaling : ScalingArgs]
      \cup { [qatest |-> FALSE, help |-> TRUE, method |-> NULL, scaling |-> NULL] }

Init ==
    /\ \E c \in CommandLines :
          /\ argQatest = c.qatest
          /\ argHelp = c.help
          /\ argMethod = c.method
          /\ argScaling = c.scaling
    /\ \E h \in Hosts :
          /\ gpuCUs = h.cus
          /\ nOther = h.other
    /\ mc \in KernelTables
    /\ pc = "parse"
    /\ use_threads = TRUE
    /\ bqatest = FALSE
    /\ strongScaling = FALSE
    /\ GPU_N = 0
    /\ OPT_N = 0
    /\ hTimer = << >>
    /\ optionData = << >>
    /\ callValueGPU = << >>
    /\ optionSolver = << >>
    /\ i = 0
    /\ gpuBase = 0
    /\ tpc = << >>
    /\ streams = << >>
    /\ events = << >>
    /\ resident = << >>
    /\ hlog = [ps \in Passes |-> << >>]
    /\ writes = << >>
    /\ readBy = {}
    /\ afterThreaded = << >>
    /\ sumDelta = 0
    /\ sumRef = 0
    /\ sumReserve = Zero
    /\ status = "running"

Next ==
    \/ ParseArgs
    \/ ProbeDevices
    \/ GenerateInput
    \/ PlanCount
    \/ PlanOdd
    \/ PlanOddNoDevice
    \/ PlanRange
    \/ SpawnThreads
    \/ \E p \in Plans : ThreadRun(p)
    \/ \E p \in Plans : ThreadRunFault(p)
    \/ \E p \in Plans : ThreadSync(p)
    \/ \E p \in Plans : ThreadEnd(p)
    \/ JoinThreads
    \/ CompareThreaded
    \/ MsOpen
    \/ MsOpenFault
    \/ MsInit
    \/ MsInitWait
    \/ MsSimulate
    \/ MsWait
    \/ MsStopTimer
    \/ MsStopTimerNoDevice
    \/ MsClose
    \/ CompareStreamed
    \/ CompareStreamedNoDevice
    \/ Shutdown
    \/ Judge
    \/ \E p \in Plans : DeviceStep(p)

Spec == Init /\ [][Next]_vars

\* ------------------------------------------------------------ plan builder
\* The plan builder of main (lines 307-328) on a drawn device count and
\* portfolio size, started where main starts it.
InitPlan ==
    /\ argQatest = FALSE
    /\ argHelp = FALSE
    /\ argMethod = NULL
    /\ argScaling = NULL
    /\ GPU_N \in 1..MaxDev
    /\ OPT_N \in 0..MaxOpt
    /\ gpuCUs = [k \in 1..GPU_N |-> MaxCUs]
    /\ nOther = 0
    /\ mc = [k \in Kinds |-> Value(BlackScholesCall(k), 500000)]
    /\ pc = "plan_count"
    /\ use_threads = FALSE
    /\ bqatest = FALSE
    /\ strongScaling = TRUE
    /\ hTimer = [t \in Plans |-> NewTimer]
    /\ optionData = [n \in Options |-> KindOf(n)]
    /\ callValueGPU = [n \in Options |-> SentinelValue]
    /\ optionSolver = [p \in Plans |-> NoPlan]
    /\ i = 0
    /\ gpuBase = 0
    /\ tpc = [p \in Plans |-> "none"]
    /\ streams = [p \in Plans |-> NoQueue]
    /\ events = [p \in Plans |-> "none"]
    /\ resident = [p \in Plans |-> FALSE]
    /\ hlog = [ps \in Passes |-> [p \in Plans |-> << >>]]
    /\ writes = [n \in Options |-> << >>]
    /\ readBy = {}
    /\ afterThreaded = << >>
    /\ sumDelta = 0
    /\ sumRef = 0
    /\ sumReserve = Zero
    /\ status = "running"

NextPlan ==
    \/ PlanCount
    \/ PlanOdd
    \/ PlanRange

SpecPlan == InitPlan /\ [][NextPlan]_vars

\* the plans are complete: main has left the three loops
PlansBuilt == pc \notin {"parse", "probe", "gen", "plan_count", "plan_odd", "plan_range"}
\* the option counts are complete: main has left the first two loops
CountsBuilt == pc \notin {"parse", "probe", "gen", "plan_count", "plan_odd"}

RECURSIVE SumCounts(_)
SumCounts(n) == IF n = 0 THEN 0 ELSE SumCounts(n - 1) + optionSolver[n - 1].optionCount

\* C1: with at least one device the ranges [base, base + optionCount) of the
\* plans main builds are contiguous in device order starting at 0, pairwise
\* disjoint, cover exactly [0, OPT_N), and their sizes add up to OPT_N.
C1_PartitionComplete ==
    (PlansBuilt /\ GPU_N >= 1) =>
        /\ optionSolver[0].base = 0
        /\ \A p \in Plans : optionSolver[p].optionCount >= 0
        /\ \A p \in Plans : optionSolver[p].device = p
        /\ \A p \in Plans :
              p + 1 \in Plans =>
                  optionSolver[p + 1].base =
                      optionSolver[p].base + optionSolver[p].optionCount
        /\ \A p, q \in Plans : p # q => Range(p) \cap Range(q) = {}
        /\ UNION { Range(p) : p \in Plans } = Options
        /\ SumCounts(GPU_N) = OPT_N

\* 17 options on 4 devices, split with a remainder
C1_Witness ==
    /\ PlansBuilt /\ GPU_N = 4 /\ OPT_N = 17
    /\ Range(0) = 0..4 /\ Range(3) = 13..16

\* C10: plan p gets floor(OPT_N / GPU_N) options, and one more exactly when
\* p < OPT_N mod GPU_N; the counts never increase with the device index, and
\* 17 options on 4 devices are split 5, 4, 4, 4.
C10_RemainderToLowest ==
    (CountsBuilt /\ GPU_N >= 1) =>
        /\ \E q \in 0..OPT_N :
              /\ q * GPU_N <= OPT_N /\ OPT_N < (q + 1) * GPU_N
              /\ \A p \in Plans :
                    optionSolver[p].optionCount =
                        IF p < OPT_N - q * GPU_N THEN q + 1 ELSE q
        /\ \A p \in Plans :
              p + 1 \in Plans =>
                  optionSolver[p].optionCount >= optionSolver[p + 1].optionCount
        /\ (OPT_N = 17 /\ GPU_N = 4) =>
              /\ optionSolver[0].optionCount = 5
              /\ \A p \in 1..3 : optionSolver[p].optionCount = 4

C10_Witness ==
    /\ CountsBuilt /\ GPU_N = 4 /\ OPT_N = 17
    /\ optionSolver[0].optionCount = 5 /\ optionSolver[3].optionCount = 4

\* ------------------------------------------------------------ execution
\* the calls of a log that are driver operations
IsDriverOp(call) == call[1] \in {"init", "sim", "close"}
DriverOps(log) == SelectSeq(log, IsDriverOp)
IsPrefixOf(a, b) == Len(a) <= Len(b) /\ \A k \in 1..Len(a) : a[k] = b[k]
\* the position of the first call of the operation in the log, 0 if none
FirstOf(log, op) ==
    IF \E k \in 1..Len(log) : log[k][1] = op
    THEN CHOOSE k \in 1..Len(log) :
            log[k][1] = op /\ \A j \in 1..(k - 1) : log[j][1] # op
    ELSE 0
Called(pass, p, op) == FirstOf(hlog[pass][p], op) > 0
\* the writes of a pass to option n
WritesIn(pass, n) == { k \in 1..Len(writes[n]) : writes[n][k][1] = pass }
\* the device has completed plan p's simulation of the pass
Simulated(pass, p) == \A n \in Range(p) : WritesIn(pass, n) # {}

\* C2: in the threaded pass the comparison loop reads the results only after
\* the join of all threads has returned, and a thread has ended only after
\* it submitted its simulation and its queue was drained behind it: the
\* results of every plan are written, and nothing of the plan is pending,
\* when main reads them.
C2_ReadAfterJoin ==
    /\ (pc = "cmp_t" \/ "threaded" \in readBy) =>
          \A p \in Plans : tpc[p] = "done"
    /\ \A p \in DOMAIN tpc :
          tpc[p] = "done" =>
              /\ Called("threaded", p, "sim")
              /\ FirstOf(hlog["threaded"][p], "wait") > FirstOf(hlog["threaded"][p], "sim")
              /\ Simulated("threaded", p)
              /\ ~Simulating(p) \/ streams[p].pass = "streamed"
    /\ pc = "cmp_t" => \A p \in Plans : Drained(streams[p])

\* main is about to compare after two threads wrote their ranges
C2_Witness ==
    /\ pc = "cmp_t" /\ GPU_N = 2 /\ OPT_N = 4
    /\ \A p \in Plans : tpc[p] = "done" /\ Simulated("threaded", p)

\* the number of times multiSolver stopped the shared timer
StreamedStops ==
    IF GPU_N = 0 \/ pc \in {"parse", "probe"} THEN 0
    ELSE hTimer[0].stops - (IF Called("threaded", 0, "wait") THEN 1 ELSE 0)

\* C3: multiSolver records the barrier event of a plan with the submission
\* of the plan's simulation, one per plan; it waits on no event before every
\* plan's simulation is submitted; and every event is waited on, its
\* simulation complete, before the shared timer is stopped, before any
\* teardown is submitted and before main reads a result.
C3_MarkersWaited ==
    /\ \A p \in DOMAIN events :
          /\ events[p] # "none" <=> Called("streamed", p, "sim")
          /\ events[p] = "waited" <=> Called("streamed", p, "evwait")
          /\ Len(SelectSeq(hlog["streamed"][p], LAMBDA c : c[1] = "evwait")) <= 1
          /\ events[p] = "waited" =>
                /\ Simulated("streamed", p)
                /\ \A q \in Plans : events[q] # "none"
    /\ ( \/ StreamedStops > 0
         \/ \E p \in Plans : Called("streamed", p, "close")
         \/ pc = "cmp_s"
         \/ "streamed" \in readBy )
       => \A p \in Plans : events[p] = "waited"
    /\ StreamedStops <= 1

\* the shared timer is stopped after both events were waited on
C3_Witness ==
    /\ pc = "ms_close" /\ GPU_N = 2 /\ StreamedStops = 1
    /\ \A p \in Plans : events[p] = "waited" /\ Range(p) # {}

\* C4 as stated: every entry is the sentinel until written, is written once
\* over the whole run, by the plan whose range holds it, and never by two
\* drivers at a time.
C4_WrittenOncePerRun ==
    \A n \in DOMAIN writes :
        /\ writes[n] = << >> => callValueGPU[n] = SentinelValue
        /\ Len(writes[n]) <= 1
        /\ (readBy # {} /\ \E p \in Plans : n \in Range(p)) => Len(writes[n]) = 1
        /\ \A k \in 1..Len(writes[n]) : n \in Range(writes[n][k][2])
        /\ Cardinality({ p \in Plans : Simulating(p) /\ n \in Range(p) }) <= 1

\* C4, amended: every entry is the sentinel until written; in one pass it is
\* written at most once, and exactly once by the time the pass's results are
\* compared if a plan's range holds it; only the plan whose range holds it
\* writes it; no two drivers write it at a time.  A run with both passes
\* writes every entry twice, once in each pass.
C4_WrittenOncePerPass ==
    \A n \in DOMAIN writes :
        /\ writes[n] = << >> => callValueGPU[n] = SentinelValue
        /\ \A pass \in Passes :
              /\ Cardinality(WritesIn(pass, n)) <= 1
              /\ (pass \in readBy /\ \E p \in Plans : n \in Range(p)) =>
                    Cardinality(WritesIn(pass, n)) = 1
        /\ \A k \in 1..Len(writes[n]) : n \in Range(writes[n][k][2])
        /\ Cardinality({ p \in Plans : Simulating(p) /\ n \in Range(p) }) <= 1
        /\ Len(writes[n]) <= 2

\* both passes ran and wrote option 0, the second time through plan 0 again
C4_Witness ==
    /\ pc = "exited" /\ readBy = Passes /\ GPU_N = 2 /\ OPT_N = 4
    /\ writes[0] = << <<"threaded", 0>>, <<"streamed", 0>> >>
    /\ writes[3] = << <<"threaded", 1>>, <<"streamed", 1>> >>

\* C5: in each pass and for each plan the driver operations are called in
\* the order init, simulate, teardown, each at most once and each exactly
\* once when the pass is over, all on the queue opened for the plan; the
\* teardown comes after a wait that follows the simulation.
C5_InitSimulateTeardown ==
    \A pass \in Passes : \A p \in DOMAIN hlog[pass] :
        LET log == hlog[pass][p]
        IN  /\ IsPrefixOf(DriverOps(log),
                          << <<"init", p>>, <<"sim", p>>, <<"close", p>> >>)
            /\ IsPrefixOf(log, FullLog(pass, p))
            /\ Called(pass, p, "close") =>
                  \E k \in 1..Len(log) :
                      /\ log[k][1] \in {"wait", "evwait"}
                      /\ FirstOf(log, "sim") < k /\ k < FirstOf(log, "close")
            /\ Len(log) > 0 => streams[p].open
            /\ pass \in readBy => log = FullLog(pass, p)
            /\ (pass = "threaded" /\ tpc[p] = "done") => log = FullLog(pass, p)

\* both passes are over on two plans
C5_Witness ==
    /\ readBy = Passes /\ GPU_N = 2
    /\ \A pass \in Passes : \A p \in Plans : hlog[pass][p] = FullLog(pass, p)

\* C6: when the simulation of a plan has failed and the run has ended, no
\* plan holds device-resident buffers: the teardown ran for the failed plan
\* and for every other plan that was set up.
C6_TeardownAfterFailure ==
    (status = "uncaught" /\ \E q \in DOMAIN streams : streams[q].err) =>
        \A p \in Plans : ~resident[p]

\* what both strategies leave: the kernel's result for every option of a
\* plan, the sentinel elsewhere
KernelOutput ==
    [n \in Options |->
        IF \E p \in Plans : n \in Range(p) THEN mc[optionData[n]] ELSE SentinelValue]

\* C7: with the same plans and a deterministic kernel the array the
\* threaded pass leaves and the array the streamed pass leaves are the same,
\* whatever the order in which the devices complete: each is the kernel's
\* output, and in a run of both passes the second comparison finds the array
\* the first one found.
C7_StrategiesAgree ==
    /\ (pc = "cmp_t" \/ pc = "cmp_s") => callValueGPU = KernelOutput
    /\ "threaded" \in readBy => afterThreaded = KernelOutput
    /\ (pc = "cmp_s" /\ "threaded" \in readBy) => callValueGPU = afterThreaded

\* the streamed comparison of a run of both passes, on a mixed portfolio
C7_Witness ==
    /\ pc = "cmp_s" /\ "threaded" \in readBy /\ GPU_N = 2 /\ OPT_N = 4
    /\ callValueGPU = afterThreaded
    /\ callValueGPU[0] # callValueGPU[1]

\* ------------------------------------------------------------ comparison
\* The comparison and the judgment of main (lines 340-459) on drawn result
\* arrays, started where a pass has just ended; and on the portfolio of two
\* devices and eight options whose results are the exact prices 4.0 and 6.0.
PlanFor(p, optN, gpuN) ==
    LET q == optN \div gpuN
        r == optN % gpuN
    IN  [device |-> p,
         optionCount |-> q + (IF p < r THEN 1 ELSE 0),
         base |-> p * q + (IF p < r THEN p ELSE r),
         pathN |-> PATH_N,
         gridSize |-> q + (IF p < r THEN 1 ELSE 0)]

DrawnPortfolios ==
    { pf \in UNION { [data : [0..(n - 1) -> Kinds],
                     vals : [0..(n - 1) -> UNION { KernelResults(k) : k \in Kinds }]] :
                       n \in 0..MaxCompared } :
        \A n \in DOMAIN pf.data : pf.vals[n] \in KernelResults(pf.data[n]) }

ExactPortfolio ==
    [data |-> [n \in 0..7 |-> IF n < 4 THEN "A" ELSE "B"],
     vals |-> [n \in 0..7 |-> Value(IF n < 4 THEN 4000000 ELSE 6000000, 500000)]]

InitCompare ==
    /\ argQatest = FALSE
    /\ argHelp = FALSE
    /\ argScaling = NULL
    /\ \E threaded \in BOOLEAN :
          /\ argMethod = IF threaded THEN Str(ThreadedLit) ELSE NULL
          /\ use_threads = threaded
          /\ pc = IF threaded THEN "cmp_t" ELSE "cmp_s"
          /\ tpc = [p \in 0..1 |-> IF threaded THEN "done" ELSE "none"]
          /\ hTimer = [t \in 0..1 |->
                          [running |-> FALSE,
                           starts |-> IF threaded THEN 1 ELSE 0,
                           stops |-> IF threaded \/ t = 0 THEN 1 ELSE 0]]
          /\ \E pf \in DrawnPortfolios \cup {ExactPortfolio} :
                /\ OPT_N = Cardinality(DOMAIN pf.data)
                /\ optionData = pf.data
                /\ callValueGPU = pf.vals
                /\ optionSolver =
                      [p \in 0..1 |-> PlanFor(p, Cardinality(DOMAIN pf.data), 2)]
                /\ hlog = [ps \in Passes |-> [p \in 0..1 |->
                              IF (ps = "threaded") = threaded
                              THEN FullLog(ps, p) ELSE << >>]]
                /\ writes =
                      [n \in DOMAIN pf.data |->
                          << << IF threaded THEN "threaded" ELSE "streamed",
                                IF n < PlanFor(1, Cardinality(DOMAIN pf.data), 2).base
                                THEN 0 ELSE 1 >> >>]
          /\ streams = [p \in 0..1 |->
                          [open |-> TRUE, dev |-> p,
                           pass |-> IF threaded THEN "threaded" ELSE "streamed",
                           pending |-> << >>, err |-> FALSE]]
          /\ events = [p \in 0..1 |-> IF threaded THEN "none" ELSE "waited"]
    /\ GPU_N = 2
    /\ gpuCUs = << MaxCUs, MaxCUs >>
    /\ nOther = 0
    /\ mc = [k \in Kinds |-> Value(BlackScholesCall(k), 500000)]
    /\ bqatest = FALSE
    /\ strongScaling = FALSE
    /\ i = 0
    /\ gpuBase = OPT_N
    /\ resident = [p \in 0..1 |-> FALSE]
    /\ readBy = {}
    /\ afterThreaded = << >>
    /\ sumDelta = 0
    /\ sumRef = 0
    /\ sumReserve = Zero
    /\ status = "running"

NextCompare ==
    \/ CompareThreaded
    \/ CompareStreamed
    \/ Shutdown
    \/ Judge

SpecCompare == InitCompare /\ [][NextCompare]_vars

\* the error of option n, and the options that count towards the reserve
DeltaOf(n) == Abs(BlackScholesCall(optionData[n]) - callValueGPU[n].Expected)
Contributing == { n \in DOMAIN callValueGPU : DeltaOf(n) > Eps }

\* the sum of confidence / delta over a set of options
RECURSIVE ReserveOver(_)
ReserveOver(S) ==
    IF S = {} THEN Zero
    ELSE LET n == CHOOSE x \in S : TRUE
         IN  RatAdd(Rat(callValueGPU[n].Confidence, DeltaOf(n)), ReserveOver(S \ {n}))

\* sumReserve / OPT_N > 1.0 for the results as they stand
ReserveAboveOne ==
    OPT_N > 0 /\ ReserveOver(Contributing).num > OPT_N * ReserveOver(Contributing).den

Compared == pc \in {"shutdown", "judge", "exited"}

\* C8: a run that reaches its end exits with status 0 exactly when the
\* average reserve, the sum of confidence / delta over the options with
\* delta > 1e-6 divided by OPT_N, is greater than 1.0, and with status 1 in
\* every other case, an average of exactly 1.0 included; a failed validation
\* never ends the process otherwise.
C8_ExitStatus ==
    /\ (pc = "exited" /\ ~argHelp) =>
          /\ status \in {"exit0", "exit1"}
          /\ status = "exit0" <=> ReserveAboveOne
    /\ Compared => status \notin {"fault", "uncaught"}

\* a run on two devices whose average reserve is exactly 1.0 exits with 1
C8_Witness ==
    /\ pc = "exited" /\ status = "exit1" /\ GPU_N = 2 /\ OPT_N = 4
    /\ ReserveOver(Contributing) = Rat(OPT_N, 1)

\* C9: an option whose delta is not above 1e-6 adds nothing to sumReserve
\* and still counts in the divisor OPT_N; so when every result is the exact
\* price, as for two devices and eight options priced 4.0 and 6.0, sumDelta,
\* sumReserve and the average reserve are 0 and the run is judged failed.
C9_ExactMatchesFail ==
    /\ (Compared /\ OPT_N > 0) =>
          /\ sumReserve.den > 0
          /\ sumReserve.num * ReserveOver(Contributing).den * OPT_N =
                ReserveOver(Contributing).num * sumReserve.den
    /\ (Compared /\ OPT_N > 0 /\ Contributing = {}) => sumReserve = Zero
    /\ (Compared /\ OPT_N > 0 /\ \A n \in Options : DeltaOf(n) = 0) =>
          /\ sumDelta = 0
          /\ sumReserve = Zero
          /\ ~Passed(sumReserve)
          /\ pc = "exited" => status = "exit1"

\* the eight exact results of two devices, judged failed
C9_Witness ==
    /\ pc = "exited" /\ status = "exit1" /\ GPU_N = 2 /\ OPT_N = 8
    /\ \A n \in Options : DeltaOf(n) = 0 /\ callValueGPU[n].Confidence = 500000
    /\ Range(0) = 0..3 /\ Range(1) = 4..7
    /\ \A n \in Range(0) : callValueGPU[n].Expected = 4000000
    /\ \A n \in Range(1) : callValueGPU[n].Expected = 6000000
    /\ sumDelta = 0 /\ sumReserve = Zero

\* ------------------------------------------------------------ configuration
\* the number of devices of the host, of every type
DeviceCount == Len(gpuCUs) + nOther
\* main is past the device count of line 248
Probed == pc \notin {"parse", "probe"}
\* some device work has started: a thread, a queue, a driver call
DeviceWork ==
    \/ \E p \in DOMAIN tpc : tpc[p] # "none"
    \/ \E p \in DOMAIN streams : streams[p].open
    \/ \E pass \in Passes : \E p \in DOMAIN hlog[pass] : hlog[pass][p] # << >>

\* C11: on a host without devices the run stops at the device count with a
\* "no devices" error: it never goes on to the input data and the plans,
\* never evaluates OPT_N % GPU_N with GPU_N = 0, and never reaches
\* multiSolver's stop of timer 0.
C11_NoDevicesStops ==
    (DeviceCount = 0 /\ ~argHelp) =>
        /\ pc \in {"parse", "probe"}
        /\ status \in {"running", "nodevices"}

\* C12: when the portfolio is empty after adjustProblemSize and scaling on a
\* host with devices, the run stops as a configuration error: no thread is
\* started, no queue opened and no driver call made, and no comparison
\* divides by OPT_N = 0.
C12_EmptyPortfolioStops ==
    (Probed /\ GPU_N > 0 /\ OPT_N = 0) =>
        /\ ~DeviceWork
        /\ readBy = {}
        /\ pc # "exited"

\* ------------------------------------------------------------ strategies
\* every spelling of "threaded" in upper and lower case
ThreadedSpellings ==
    { [k \in 1..8 |-> IF k \in U THEN <<"T", "H", "R", "E", "A", "D", "E", "D">>[k]
                                 ELSE <<"t", "h", "r", "e", "a", "d", "e", "d">>[k]] :
        U \in SUBSET (1..8) }
MethodIsThreaded == ~argMethod.isNull /\ argMethod.chars \in ThreadedSpellings
InThreadedPass == pc \in {"spawn", "join", "cmp_t"}
InStreamedPass ==
    pc \in {"ms_open", "ms_init", "ms_initwait", "ms_sim", "ms_wait", "ms_stop",
            "ms_close", "cmp_s"}

GridCUs == {1, 2, SmallGpuCores, SmallGpuCores + 1}

InitGrid ==
    /\ argQatest = FALSE
    /\ argHelp = FALSE
    /\ argMethod = NULL
    /\ argScaling \in ScalingArgs
    /\ gpuCUs \in UNION { [1..n -> GridCUs] : n \in 1..2 }
    /\ nOther = 0
    /\ mc = [k \in Kinds |-> Value(BlackScholesCall(k), 500000)]
    /\ pc = "plan_count"
    /\ use_threads = FALSE
    /\ bqatest = FALSE
    /\ strongScaling = ~argScaling.isNull
    /\ GPU_N = Len(gpuCUs)
    /\ OPT_N = adjustProblemSize(Len(gpuCUs), GridOptions)
                  * (IF argScaling.isNull THEN Len(gpuCUs) ELSE 1)
    /\ hTimer = [t \in Plans |-> NewTimer]
    /\ optionData = [n \in Options |-> KindOf(n)]
    /\ callValueGPU = [n \in Options |-> SentinelValue]
    /\ optionSolver = [p \in Plans |-> NoPlan]
    /\ i = 0
    /\ gpuBase = 0
    /\ tpc = [p \in Plans |-> "none"]
    /\ streams = [p \in Plans |-> NoQueue]
    /\ events = [p \in Plans |-> "none"]
    /\ resident = [p \in Plans |-> FALSE]
    /\ hlog = [ps \in Passes |-> [p \in Plans |-> << >>]]
    /\ writes = [n \in Options |-> << >>]
    /\ readBy = {}
    /\ afterThreaded = << >>
    /\ sumDelta = 0
    /\ sumRef = 0
    /\ sumReserve = Zero
    /\ status = "running"

NextGrid ==
    \/ PlanCount
    \/ PlanOdd
    \/ PlanRange

SpecGrid == InitGrid /\ [][NextGrid]_vars

\* the compute units of the device with index d of the GPU list
Capability(d) == gpuCUs[d + 1]
\* the plans whose range and grid size the third loop has set
Ranged == { p \in Plans : PlansBuilt \/ (pc = "plan_range" /\ p < i) }

\* C14: the grid size of every plan is the smaller of the plan's option
\* count and 40 times the compute units of the plan's own device, so it
\* never exceeds that ceiling, on hosts whose devices differ as well.
C14_GridWithinOwnDevice ==
    \A p \in Ranged :
        /\ optionSolver[p].gridSize <= Capability(optionSolver[p].device) * GridPerCore
        /\ optionSolver[p].gridSize =
              IF optionSolver[p].optionCount
                    <= Capability(optionSolver[p].device) * GridPerCore
              THEN optionSolver[p].optionCount
              ELSE Capability(optionSolver[p].device) * GridPerCore

\* ------------------------------------------------------------ progress
\* The program with its scheduling: the main thread and every host thread
\* run on when they can, and every device goes on completing the commands
\* submitted to it.
MainStep ==
    \/ ParseArgs \/ ProbeDevices \/ GenerateInput
    \/ PlanCount \/ PlanOdd \/ PlanOddNoDevice \/ PlanRange
    \/ SpawnThreads \/ JoinThreads \/ CompareThreaded
    \/ MsOpen \/ MsOpenFault \/ MsInit \/ MsInitWait \/ MsSimulate \/ MsWait
    \/ MsStopTimer \/ MsStopTimerNoDevice \/ MsClose
    \/ CompareStreamed \/ CompareStreamedNoDevice \/ Shutdown \/ Judge
ThreadStep(p) ==
    p \in Plans /\ (ThreadRun(p) \/ ThreadRunFault(p) \/ ThreadSync(p) \/ ThreadEnd(p))
DeviceCompletes(q) == q \in Plans /\ DeviceStep(q)

Fairness ==
    /\ WF_vars(MainStep)
    /\ \A p \in 0..(MaxDevices - 1) : WF_vars(ThreadStep(p))
    /\ \A q \in 0..(MaxDevices - 1) : WF_vars(DeviceCompletes(q))

\* the runs of Spec on hosts whose GPUs have two compute units, with the
\* kernel that errs differently on the two kinds of option
InitFair ==
    /\ Init
    /\ \A k \in 1..Len(gpuCUs) : gpuCUs[k] = 2
    /\ mc = [k \in Kinds |-> IF k = "A" THEN Value(BlackScholesCall(k) + 2, 6)
                                        ELSE Value(BlackScholesCall(k) - 4, 2)]

FairSpec == InitFair /\ [][Next]_vars /\ Fairness

\* the process was ended by an exception or a fault
Crashed == status \in {"uncaught", "fault"}
\* the passes the flags select
PassesToRun ==
    { pass \in Passes :
        IF pass = "threaded" THEN use_threads \/ bqatest ELSE ~use_threads \/ bqatest }
\* there are devices, and each has completed set-up, simulation and teardown
\* of its plan in every pass
DevicesDone ==
    /\ GPU_N >= 1
    /\ \A pass \in PassesToRun : \A p \in Plans :
          /\ hlog[pass][p] = FullLog(pass, p)
          /\ Simulated(pass, p)
    /\ \A p \in Plans : Drained(streams[p])
\* the pass in which plan p's simulation is submitted and not complete
SimulatingIn(pass, p) ==
    \E q \in Plans :
        /\ streams[q].pass = pass
        /\ \E k \in 1..Len(streams[q].pending) : streams[q].pending[k] = <<"sim", p>>

\* C15: no step of the program leaves a wait before the device is done.
\* With every thread and device going on, a run ends: at the judgment and
\* exit, or, only where some device's work was not completed, by an exception
\* or a fault.  While the simulation of a plan is not complete, main is at
\* the spawn or the join of the threaded pass, or in the simulation or event
\* wait loop of multiSolver, and has not compared the results of that pass:
\* a device that never completes keeps it there for ever.
C15_NoTimeout ==
    /\ <>(pc = "exited" \/ (Crashed /\ ~DevicesDone))
    /\ [](\A p \in Plans :
            /\ SimulatingIn("threaded", p) =>
                  pc \in {"spawn", "join"} /\ "threaded" \notin readBy
            /\ SimulatingIn("streamed", p) =>
                  pc \in {"ms_sim", "ms_wait"} /\ "streamed" \notin readBy)

\* a run of both passes on two devices has reached its exit
C15_Witness ==
    /\ pc = "exited" /\ status \in {"exit0", "exit1"}
    /\ GPU_N = 2 /\ OPT_N = 2 /\ readBy = Passes /\ DevicesDone

\* ------------------------------------------------------------ both passes
\* the threaded pass is over: every thread has ended and main has compared
ThreadedOver ==
    /\ \A p \in Plans : tpc[p] = "done"
    /\ "threaded" \in readBy
\* the streamed pass has begun on plan p: its queue is open or a call is made
StreamedBegun(p) == streams[p].pass = "streamed" \/ hlog["streamed"][p] # << >>

\* C16: with --qatest the passes run one after the other: when multiSolver
\* is entered, and whenever it has opened a queue or made a call for a plan,
\* every thread of the threaded pass has ended, nothing the threads submitted
\* is pending, and the threaded comparison is done; so no thread and
\* multiSolver are at work on the same plan at the same time.
C16_PassesInSequence ==
    (bqatest /\ Probed) =>
        /\ (InStreamedPass \/ \E p \in Plans : StreamedBegun(p)) =>
              /\ ThreadedOver
              /\ \A p \in Plans : ~SimulatingIn("threaded", p)
              /\ \A p \in Plans :
                    streams[p].pass = "threaded" => Drained(streams[p])
        /\ \A p \in Plans :
              tpc[p] \in {"start", "sync", "drain"} =>
                  /\ ~InStreamedPass
                  /\ \A q \in Plans : ~StreamedBegun(q)

\* multiSolver submits the simulations after both threads have ended
C16_Witness ==
    /\ bqatest /\ pc = "ms_sim" /\ GPU_N = 2 /\ i = 1
    /\ ThreadedOver
    /\ \A p \in Plans : hlog["threaded"][p] = FullLog("threaded", p)
    /\ SimulatingIn("streamed", 0)

\* ------------------------------------------------------------ streamed order
\* a command of the kind is submitted to the queue of plan p and not complete
PendingOn(p, cmd) ==
    \E k \in 1..Len(streams[p].pending) : streams[p].pending[k][1] = cmd

\* C17: multiSolver calls init plan by plan in plan order, waits on each
\* plan's queue by itself, and submits the simulation of a plan only after
\* the plan's init was called and the wait on the plan's queue has returned,
\* the init complete.
C17_InitBeforeSimulate ==
    \A p \in DOMAIN hlog["streamed"] :
        LET log == hlog["streamed"][p]
        IN  /\ Called("streamed", p, "wait") =>
                  /\ Called("streamed", p, "init")
                  /\ FirstOf(log, "init") < FirstOf(log, "wait")
            /\ Called("streamed", p, "sim") =>
                  /\ Called("streamed", p, "wait")
                  /\ FirstOf(log, "wait") < FirstOf(log, "sim")
                  /\ streams[p].pass = "streamed" => ~PendingOn(p, "init")
            /\ Len(SelectSeq(log, LAMBDA c : c[1] = "wait")) <= 1
            /\ \A c \in {"init", "wait", "sim"} :
                  (p > 0 /\ Called("streamed", p, c)) => Called("streamed", p - 1, c)

\* both simulations are submitted, each after its plan's init and wait
C17_Witness ==
    /\ pc = "ms_wait" /\ GPU_N = 2 /\ OPT_N = 4
    /\ \A p \in Plans :
          hlog["streamed"][p] = << <<"init", p>>, <<"wait", p>>, <<"sim", p>> >>

\* ------------------------------------------------------------ shared timer
\* multiSolver has issued work for some plan and not yet stopped the timer
StreamedWorkUnderWay ==
    /\ pc \in {"ms_init", "ms_initwait", "ms_sim", "ms_wait", "ms_stop"}
    /\ \E p \in Plans : hlog["streamed"][p] # << >>

\* C18: in the streamed pass timer 0 is running from before the first
\* plan's work is issued until multiSolver stops it, once, after every event
\* was waited on: the stop ends a measurement started in this pass.
C18_SharedTimerSpansBatch ==
    GPU_N > 0 =>
        /\ StreamedWorkUnderWay => hTimer[0].running
        /\ pc = "ms_stop" => hTimer[0].running
        /\ StreamedStops <= 1
        /\ StreamedStops = 1 =>
              /\ \A p \in Plans : events[p] = "waited"
              /\ hTimer[0].starts >= hTimer[0].stops

\* ------------------------------------------------------------ device list
\* C19: the number of plans is at most the number of GPUs in the list that
\* solverThread and multiSolver index, the device of every plan is an index
\* into that list, and every queue is opened on a device of the list.
C19_DeviceIndexInList ==
    /\ Probed => GPU_N <= Len(gpuCUs)
    /\ \A p \in Ranged : ~OutOfList(optionSolver[p].device)
    /\ \A p \in DOMAIN streams : streams[p].open => streams[p].dev # "stale"

\* ------------------------------------------------------------ dual pass
\* A --qatest run from the end of its threaded pass on (line 340), on two
\* GPUs of two compute units with one option each: the results the threads
\* left are drawn, and multiSolver runs the kernel mc over them.
InitDual ==
    /\ argQatest = TRUE
    /\ argHelp = FALSE
    /\ argMethod = NULL
    /\ argScaling = NULL
    /\ gpuCUs = << 2, 2 >>
    /\ nOther = 0
    /\ mc \in KernelTables
    /\ pc = "cmp_t"
    /\ use_threads = FALSE
    /\ bqatest = TRUE
    /\ strongScaling = FALSE
    /\ GPU_N = 2
    /\ OPT_N = 2
    /\ hTimer = [t \in 0..1 |-> sdkStopTimer(sdkStartTimer(NewTimer))]
    /\ optionData = [n \in 0..1 |-> KindOf(n)]
    /\ callValueGPU \in [0..1 -> UNION { KernelResults(k) : k \in Kinds }]
    /\ \A n \in 0..1 : callValueGPU[n] \in KernelResults(KindOf(n))
    /\ optionSolver = [p \in 0..1 |-> PlanFor(p, 2, 2)]
    /\ i = 0
    /\ gpuBase = 2
    /\ tpc = [p \in 0..1 |-> "done"]
    /\ streams = [p \in 0..1 |->
                    [open |-> TRUE, dev |-> p, pass |-> "threaded",
                     pending |-> << >>, err |-> FALSE]]
    /\ events = [p \in 0..1 |-> "none"]
    /\ resident = [p \in 0..1 |-> FALSE]
    /\ hlog = [ps \in Passes |-> [p \in 0..1 |->
                  IF ps = "threaded" THEN FullLog(ps, p) ELSE << >>]]
    /\ writes = [n \in 0..1 |-> << <<"threaded", n>> >>]
    /\ readBy = {}
    /\ afterThreaded = << >>
    /\ sumDelta = 0
    /\ sumRef = 0
    /\ sumReserve = Zero
    /\ status = "running"

NextDual ==
    \/ CompareThreaded
    \/ MsOpen
    \/ MsOpenFault
    \/ MsInit
    \/ MsInitWait
    \/ MsSimulate
    \/ MsWait
    \/ MsStopTimer
    \/ MsClose
    \/ CompareStreamed
    \/ Shutdown
    \/ Judge
    \/ \E p \in Plans : DeviceStep(p)

SpecDual == InitDual /\ [][NextDual]_vars

RECURSIVE DeltaOver(_)
DeltaOver(S) ==
    IF S = {} THEN 0
    ELSE LET n == CHOOSE x \in S : TRUE IN DeltaOf(n) + DeltaOver(S \ {n})
RECURSIVE RefOver(_)
RefOver(S) ==
    IF S = {} THEN 0
    ELSE LET n == CHOOSE x \in S : TRUE
         IN  Abs(BlackScholesCall(optionData[n])) + RefOver(S \ {n})

\* the judgment the sums of the threaded comparison alone would give
ThreadedVerdict == Passed(Compare(OPT_N, optionData, afterThreaded).sumReserve)

\* C20: with --qatest, once the streamed comparison has run the sums are
\* those of the results the streamed pass left, nothing of the threaded
\* comparison remains in them, and the exit status is 0 exactly when the
\* average reserve of those results is above 1, whatever the threaded
\* pass's results would have given.
C20_StreamedPassDecides ==
    (bqatest /\ "streamed" \in readBy) =>
        /\ callValueGPU = KernelOutput
        /\ sumDelta = DeltaOver(Options)
        /\ sumRef = RefOver(Options)
        /\ sumReserve.den > 0
        /\ sumReserve.num * ReserveOver(Contributing).den * OPT_N =
              ReserveOver(Contributing).num * sumReserve.den
        /\ pc = "exited" =>
              /\ status \in {"exit0", "exit1"}
              /\ status = "exit0" <=> ReserveAboveOne

\* the threaded results would have passed, the streamed ones fail, exit 1
C20_Witness ==
    /\ bqatest /\ pc = "exited" /\ status = "exit1"
    /\ readBy = Passes
    /\ ThreadedVerdict
    /\ afterThreaded # callValueGPU
    /\ sumDelta > 0

====
